---------------------------- MODULE Spec2Model ----------------------------
(***************************************************************************)
(* Model of src/app.py: the data normalization and insight pipeline of the *)
(* startup-funding dashboard.  One run of the script is a straight line:   *)
(*   load -> normalize column names, detect columns -> clean values ->     *)
(*   apply sidebar filters -> KPIs -> insights -> map -> investors panel.  *)
(* A data frame is a record [cols, rows]: cols is the set of column labels *)
(* and rows a sequence of functions from cols to cells.  Text is kept as   *)
(* TLA+ strings and is taken apart character by character.                 *)
(***************************************************************************)
EXTENDS Integers, Sequences, FiniteSets, TLC

VARIABLES
    pc,         \* position of the script run
    raw,        \* the table as load_dataframe returned it
    df,         \* the module-level frame df, rewritten in place
    fm,         \* the detected columns (date_col, startup_col, ...)
    ctl,        \* the sidebar widgets' values
    filtered,   \* the frame filtered
    insights,   \* the list generate_insights returned
    invs,       \* the exploded tokens inside generate_insights
    inv_rows    \* the exploded rows of the investors panel

vars == <<pc, raw, df, fm, ctl, filtered, insights, invs, inv_rows>>

---------------------------------------------------------------------------
(* Bounds of the model                                                     *)

MaxRows == 2          \* rows of a loaded table
YearsAhead == 1       \* datetime.now().year lies in 2015 .. 2015+YearsAhead

---------------------------------------------------------------------------
(* Cells                                                                   *)

NaN == [t |-> "nan"]                      \* np.nan / pd.NaT / missing cell
Str(s) == [t |-> "str", v |-> s]
Num(n) == [t |-> "num", v |-> n]
Date(y, m, d) == [t |-> "date", y |-> y, m |-> m, d |-> d]
IsNull(c) == c.t = "nan"

None == "<None>"                          \* Python None used as a label

---------------------------------------------------------------------------
(* Text                                                                    *)

Char(s, i) == SubSeq(s, i, i)
Digits == "0123456789"
UpperChars == "ABCDEFGHIJKLMNOPQRSTUVWXYZ"
LowerChars == "abcdefghijklmnopqrstuvwxyz"
IndexIn(alphabet, c) ==
    IF \E i \in 1..Len(alphabet) : Char(alphabet, i) = c
    THEN CHOOSE i \in 1..Len(alphabet) : Char(alphabet, i) = c
    ELSE 0
IsSpace(c) == c \in {" ", "\t", "\n", "\r"}

RECURSIVE LStrip(_)
LStrip(s) == IF s # "" /\ IsSpace(Head(s)) THEN LStrip(Tail(s)) ELSE s
RECURSIVE RStrip(_)
RStrip(s) ==
    IF s # "" /\ IsSpace(Char(s, Len(s)))
    THEN RStrip(SubSeq(s, 1, Len(s) - 1)) ELSE s
\* str.strip()
Strip(s) == RStrip(LStrip(s))

LowerChar(c) ==
    IF IndexIn(UpperChars, c) # 0 THEN Char(LowerChars, IndexIn(UpperChars, c)) ELSE c
RECURSIVE Lower(_)
\* str.lower() on ASCII text
Lower(s) == IF s = "" THEN "" ELSE LowerChar(Head(s)) \o Lower(Tail(s))

RECURSIVE ReplaceChars(_, _, _)
\* every character of s that is in the set from is replaced by to
ReplaceChars(s, from, to) ==
    IF s = "" THEN ""
    ELSE (IF Head(s) \in from THEN to ELSE Head(s)) \o ReplaceChars(Tail(s), from, to)

RECURSIVE SplitFrom(_, _, _)
SplitFrom(s, sep, cur) ==
    IF s = "" THEN <<cur>>
    ELSE IF Head(s) = sep THEN <<cur>> \o SplitFrom(Tail(s), sep, "")
    ELSE SplitFrom(Tail(s), sep, cur \o Head(s))
\* str.split(sep) for a one-character separator: "" splits into <<"">>
Split(s, sep) == SplitFrom(s, sep, "")

RECURSIVE NatToStr(_)
NatToStr(n) ==
    IF n < 10 THEN Char(Digits, n + 1)
    ELSE NatToStr(n \div 10) \o Char(Digits, (n % 10) + 1)
IntToStr(n) == IF n < 0 THEN "-" \o NatToStr(-n) ELSE NatToStr(n)

AllDigits(s) == s # "" /\ \A i \in 1..Len(s) : IndexIn(Digits, Char(s, i)) # 0
RECURSIVE DigitsValue(_, _)
DigitsValue(s, acc) ==
    IF s = "" THEN acc
    ELSE DigitsValue(Tail(s), acc * 10 + (IndexIn(Digits, Head(s)) - 1))

\* Series.astype(str) on one cell
AsStr(c) ==
    CASE c.t = "nan" -> "nan"
      [] c.t = "str" -> c.v
      [] c.t = "num" -> IntToStr(c.v)

---------------------------------------------------------------------------
(* Helpers of app.py                                                       *)

find_column_last(columns, candidates) ==
    IF \E i \in 1..Len(candidates) : candidates[i] \in columns
    THEN candidates[CHOOSE i \in 1..Len(candidates) :
                       /\ candidates[i] \in columns
                       /\ \A j \in (i+1)..Len(candidates) : candidates[j] \notin columns]
    ELSE None

\* find_column: the first candidate that is a column label, else None
find_column(columns, candidates) ==
    IF \E i \in 1..Len(candidates) : candidates[i] \in columns
    THEN candidates[CHOOSE i \in 1..Len(candidates) :
                       /\ candidates[i] \in columns
                       /\ \A j \in 1..(i-1) : candidates[j] \notin columns]
    ELSE None

\* pd.to_numeric(errors='coerce') on one string, for signed decimal integers;
\* any other text is coerced to NaN
to_numeric(s) ==
    LET body == IF s # "" /\ Head(s) \in {"-", "+"} THEN Tail(s) ELSE s
    IN  IF AllDigits(body)
        THEN Num(IF Head(s) = "-" THEN -DigitsValue(body, 0) ELSE DigitsValue(body, 0))
        ELSE NaN

AmountSentinels == {"undisclosed", "nan", "none", "None", ""}

\* clean_amount_series on one cell
clean_amount(c) ==
    LET s == ReplaceChars(AsStr(c), {"$", ",", "₹"}, "")
    IN  IF s \in AmountSentinels THEN NaN ELSE to_numeric(s)


\* pd.to_datetime(errors='coerce') on one cell, for ISO "YYYY-MM-DD" text;
\* any other text is coerced to NaT.  An integer is nanoseconds since 1970.
IsLeap(y) == (y % 4 = 0 /\ y % 100 # 0) \/ y % 400 = 0
DaysInMonth(y, m) ==
    IF m = 2 THEN (IF IsLeap(y) THEN 29 ELSE 28)
    ELSE IF m \in {4, 6, 9, 11} THEN 30 ELSE 31
to_datetime(c) ==
    CASE c.t = "nan" -> NaN
      [] c.t = "num" -> Date(1970, 1, 1)
      [] c.t = "str" ->
           LET s == c.v
               ok == /\ Len(s) = 10
                     /\ Char(s, 5) = "-" /\ Char(s, 8) = "-"
                     /\ AllDigits(SubSeq(s, 1, 4))
                     /\ AllDigits(SubSeq(s, 6, 7))
                     /\ AllDigits(SubSeq(s, 9, 10))
               y == DigitsValue(SubSeq(s, 1, 4), 0)
               m == DigitsValue(SubSeq(s, 6, 7), 0)
               d == DigitsValue(SubSeq(s, 9, 10), 0)
           IN  IF ok /\ y >= 1 /\ m \in 1..12 /\ d \in 1..DaysInMonth(y, m)
               THEN Date(y, m, d) ELSE NaN

\* Series.dt.year on one cell
dt_year(c) == IF c.t = "date" THEN Num(c.y) ELSE NaN

FlagTable ==
    [k \in {"yes", "y", "true", "1", "no", "n", "false", "0"} |->
        IF k \in {"yes", "y", "true", "1"} THEN "Recognized" ELSE "Not Recognized"]

\* Series.map(dict) on one cell: a key that is missing maps to NaN
map_flag(s) == IF s \in DOMAIN FlagTable THEN Str(FlagTable[s]) ELSE NaN

fillna(c, value) == IF IsNull(c) THEN Str(value) ELSE c

normalize_flag_nofill(c) == map_flag(Lower(Strip(AsStr(c))))

\* the MeitY normalization of one cell
normalize_flag(c) == fillna(map_flag(Lower(Strip(AsStr(c)))), "Unknown")

\* CITY_COORDS in insertion order, coordinates in 1/10000 degree
CITY_COORDS ==
    << <<"bengaluru", 129716, 775946>>, <<"bangalore", 129716, 775946>>,
       <<"mumbai", 190760, 728777>>,    <<"delhi", 287041, 771025>>,
       <<"new delhi", 286139, 772090>>, <<"chennai", 130827, 802707>>,
       <<"hyderabad", 173850, 784867>>, <<"pune", 185204, 738567>>,
       <<"kolkata", 225726, 883639>>,   <<"ahmedabad", 230225, 725714>>,
       <<"gurgaon", 284595, 770266>>,   <<"noida", 285355, 773910>>,
       <<"faridabad", 284089, 773178>>, <<"ghaziabad", 286692, 774538>> >>

Contains(s, k) ==
    \E i \in 1..(Len(s) - Len(k) + 1) : SubSeq(s, i, i + Len(k) - 1) = k

\* geocode_city: <<lat, lon>> of the first key equal to or contained in the name
geocode_city(c) ==
    IF IsNull(c) THEN <<NaN, NaN>>
    ELSE LET name == Lower(Strip(AsStr(c)))
             hit(i) == CITY_COORDS[i][1] = name \/ Contains(name, CITY_COORDS[i][1])
         IN  IF \E i \in 1..Len(CITY_COORDS) : hit(i)
             THEN LET i == CHOOSE i \in 1..Len(CITY_COORDS) :
                                hit(i) /\ \A j \in 1..(i-1) : ~hit(j)
                  IN  <<Num(CITY_COORDS[i][2]), Num(CITY_COORDS[i][3])>>
             ELSE <<NaN, NaN>>

---------------------------------------------------------------------------
(* Data frames                                                             *)

EmptyFrame == [cols |-> {}, rows |-> <<>>]
Column(d, col) == [i \in DOMAIN d.rows |-> d.rows[i][col]]
\* df[col] = vals: the column is added when it is new
SetCol(d, col, vals) ==
    [cols |-> d.cols \cup {col},
     rows |-> [i \in DOMAIN d.rows |->
                 [c \in d.cols \cup {col} |->
                    IF c = col THEN vals[i] ELSE d.rows[i][c]]]]
\* the rows at the positions K, in order
SelectRows(rows, K) ==
    LET nth(k) == CHOOSE i \in K : Cardinality({j \in K : j < i}) = k - 1
    IN  [k \in 1..Cardinality(K) |-> rows[nth(k)]]
\* the positions of the rows whose cell in col is one of values
Matching(rows, col, values) == {i \in DOMAIN rows : rows[i][col] \in values}
\* df[mask]
Where(d, K) == [d EXCEPT !.rows = SelectRows(d.rows, K)]
\* Series.dropna().unique() as a set
Uniques(d, col) ==
    {d.rows[i][col] : i \in {j \in DOMAIN d.rows : ~IsNull(d.rows[j][col])}}
Truthy(col) == col # None /\ col # ""

---------------------------------------------------------------------------
(* The script, top to bottom                                               *)

\* line 128
normalize_name(c) == ReplaceChars(Lower(Strip(c)), {" "}, "_")

normalize_columns(d) ==
    [cols |-> {normalize_name(c) : c \in d.cols},
     rows |-> [i \in DOMAIN d.rows |->
                 [n \in {normalize_name(c) : c \in d.cols} |->
                    d.rows[i][CHOOSE c \in d.cols : normalize_name(c) = n]]]]

DateAliases == <<"date", "date_dd/mm/yyyy", "funded_date">>
StartupAliases == <<"startup_name", "name_of_the_startup", "startup">>
CityAliases == <<"city_location", "city", "location">>
IndustryAliases == <<"industry_vertical", "industry">>
SectorAliases == <<"sector">>
AmountAliases == <<"amount_in_usd", "amount", "investment_amount">>
InvestorAliases == <<"investors_name", "investors", "investor", "investor_name">>
MeityAliases == <<"is_meity_recognized", "is_meity", "meity">>

detect_columns(columns) ==
    [date_col     |-> find_column(columns, DateAliases),
     startup_col  |-> find_column(columns, StartupAliases),
     city_col     |-> find_column(columns, CityAliases),
     industry_col |-> find_column(columns, IndustryAliases),
     sector_col   |-> find_column(columns, SectorAliases),
     amount_col   |-> find_column(columns, AmountAliases),
     investor_col |-> find_column(columns, InvestorAliases),
     meity_col    |-> find_column(columns, MeityAliases)]

NoColumns == detect_columns({})

\* lines 127-138
DetectColumns ==
    /\ pc = "loaded"
    /\ df' = normalize_columns(df)
    /\ fm' = detect_columns(df'.cols)
    /\ pc' = "detected"
    /\ UNCHANGED <<raw, ctl, filtered, insights, invs, inv_rows>>

NonNull(rows, cols) == {i \in DOMAIN rows : \A c \in cols : ~IsNull(rows[i][c])}

normalize_values(d, f) ==
    LET d1 == IF Truthy(f.amount_col)
              THEN SetCol(d, f.amount_col,
                          [i \in DOMAIN d.rows |-> clean_amount(d.rows[i][f.amount_col])])
              ELSE d
        d2 == IF Truthy(f.date_col)
              THEN SetCol(d1, f.date_col,
                          [i \in DOMAIN d.rows |-> to_datetime(d1.rows[i][f.date_col])])
              ELSE d1
        d3 == IF Truthy(f.meity_col)
              THEN SetCol(d2, f.meity_col,
                          [i \in DOMAIN d.rows |-> normalize_flag(d2.rows[i][f.meity_col])])
              ELSE d2
        d4 == SetCol(d3, "year",
                     [i \in DOMAIN d.rows |->
                         IF f.date_col \in d3.cols THEN dt_year(d3.rows[i][f.date_col])
                         ELSE NaN])
    IN  IF Truthy(f.startup_col)
        THEN SetCol(d4, f.startup_col,
                    [i \in DOMAIN d.rows |-> Str(Strip(AsStr(d4.rows[i][f.startup_col])))])
        ELSE SetCol(d4, f.startup_col, [i \in DOMAIN d.rows |-> Str(IntToStr(i - 1))])

normalize_complete(d, f) ==
    LET n == normalize_values(d, f)
    IN  Where(n, NonNull(n.rows, {f.date_col, f.amount_col} \cap n.cols))

\* lines 140-156: amount, date, MeitY, year, startup name; no row is dropped
normalize(d, f) == normalize_values(d, f)

Normalize ==
    /\ pc = "detected"
    /\ df' = normalize(df, fm)
    /\ pc' = "normalized"
    /\ UNCHANGED <<raw, fm, ctl, filtered, insights, invs, inv_rows>>


DefaultYearMin == 2015

SetMin(S) == CHOOSE x \in S : \A y \in S : x <= y
SetMax(S) == CHOOSE x \in S : \A y \in S : x >= y
Years(d) == {d.rows[i]["year"].v : i \in {j \in DOMAIN d.rows : ~IsNull(d.rows[j]["year"])}}

\* lines 171-198: what each sidebar widget offers
year_min(d) == IF Years(d) # {} THEN SetMin(Years(d)) ELSE DefaultYearMin
year_max(d, now) == IF Years(d) # {} THEN SetMax(Years(d)) ELSE now
options(d, col) == IF col \in d.cols THEN Uniques(d, col) ELSE {}
meity_options(d, f) ==
    IF Truthy(f.meity_col) /\ f.meity_col \in d.cols
    THEN {Str("Recognized"), Str("Not Recognized")} \cap Uniques(d, f.meity_col)
    ELSE {}
unknown_offered(d, f) ==
    Truthy(f.meity_col) /\ Str("Unknown") \in Uniques(d, f.meity_col)

Controls(d, f, now) ==
    [year_range : {r \in (year_min(d)..year_max(d, now)) \X (year_min(d)..year_max(d, now)) :
                      r[1] <= r[2]},
     industry_sel : SUBSET options(d, f.industry_col),
     sector_sel : SUBSET options(d, f.sector_col),
     city_sel : SUBSET options(d, f.city_col),
     meity_sel : SUBSET meity_options(d, f),
     include_unknown : IF unknown_offered(d, f) THEN BOOLEAN ELSE {FALSE}]

NoControls ==
    [year_range |-> <<DefaultYearMin, DefaultYearMin>>, industry_sel |-> {},
     sector_sel |-> {}, city_sel |-> {}, meity_sel |-> {}, include_unknown |-> FALSE]

\* Series.between(lo, hi, inclusive='both') on one cell: NaN is not between
between(c, lo, hi) == c.t = "num" /\ lo <= c.v /\ c.v <= hi

filter_selections(d, f, c) ==
    LET f2 == IF c.industry_sel # {}
              THEN Where(d, Matching(d.rows, f.industry_col, c.industry_sel)) ELSE d
        f3 == IF c.sector_sel # {}
              THEN Where(f2, Matching(f2.rows, f.sector_col, c.sector_sel)) ELSE f2
        f4 == IF c.city_sel # {}
              THEN Where(f3, Matching(f3.rows, f.city_col, c.city_sel)) ELSE f3
        allowed == IF c.include_unknown THEN c.meity_sel \cup {Str("Unknown")}
                   ELSE c.meity_sel
    IN  IF Truthy(f.meity_col) /\ c.meity_sel # {}
        THEN Where(f4, Matching(f4.rows, f.meity_col, allowed)) ELSE f4

apply_filters_no_year(d, f, c) == filter_selections(d, f, c)

\* lines 203-225
apply_filters(d, f, c) ==
    LET in_years == {i \in DOMAIN d.rows :
                        between(d.rows[i]["year"], c.year_range[1], c.year_range[2])}
    IN  filter_selections(IF "year" \in d.cols THEN Where(d, in_years) ELSE d, f, c)

ApplyFilters ==
    /\ pc = "normalized"
    /\ \E now \in DefaultYearMin..(DefaultYearMin + YearsAhead) :
         \E c \in Controls(df, fm, now) :
            /\ ctl' = c
            /\ filtered' = apply_filters(df, fm, c)
    /\ pc' = "filtered"
    /\ UNCHANGED <<raw, df, fm, insights, invs, inv_rows>>

\* A column holds numbers when it is the cleaned amount column; the column
\* labelled None holds the positional names, which are text.
IsNumeric(d, col) == Truthy(col) /\ col \in d.cols
RECURSIVE SumCells(_)
\* Series.sum(): NaN is skipped, the empty sum is 0
SumCells(cells) ==
    IF cells = <<>> THEN 0
    ELSE (IF IsNull(Head(cells)) THEN 0 ELSE Head(cells).v) + SumCells(Tail(cells))
col_sum(d, col) == SumCells(Column(d, col))

\* lines 249-263: summing and averaging text cannot be formatted as a number
KeyMetrics ==
    /\ pc = "filtered"
    /\ pc' = IF /\ fm.amount_col \in filtered.cols
                /\ ~IsNumeric(filtered, fm.amount_col)
                /\ filtered.rows # <<>>
             THEN "crashed" ELSE "metrics"
    /\ UNCHANGED <<raw, df, fm, ctl, filtered, insights, invs, inv_rows>>

---------------------------------------------------------------------------
(* generate_insights                                                       *)

AsciiOrder == " $+,-./0123456789ABCDEFGHIJKLMNOPQRSTUVWXYZ_abcdefghijklmnopqrstuvwxyz"
RECURSIVE StrLess(_, _)
\* the order sorted() and a sorted group index put on text
StrLess(a, b) ==
    IF a = "" THEN b # ""
    ELSE IF b = "" THEN FALSE
    ELSE IF Head(a) = Head(b) THEN StrLess(Tail(a), Tail(b))
    ELSE IndexIn(AsciiOrder, Head(a)) < IndexIn(AsciiOrder, Head(b))

RowsWhere(d, col, k) == SelectRows(d.rows, Matching(d.rows, col, {k}))
Amounts(rows, col) == [i \in DOMAIN rows |-> rows[i][col]]
Count(d, col, k) == Cardinality({i \in DOMAIN d.rows : d.rows[i][col] = k})

\* lines 71-75: df[amount_col].sum(skipna=True), formatted as a number
total_insight(d, amount_col) ==
    IF amount_col \in d.cols /\ (IsNumeric(d, amount_col) \/ d.rows = <<>>)
    THEN <<[kind |-> "total", total |-> col_sum(d, amount_col)]>>
    ELSE <<>>

\* lines 76-81: groupby(sector_col)[amount_col].sum().idxmax(); the group keys
\* are the non-null sectors in sorted order and idxmax takes the first maximum
sector_insight(d, sector_col, amount_col) ==
    LET keys == IF sector_col \in d.cols THEN Uniques(d, sector_col) ELSE {}
        total(k) == SumCells(Amounts(RowsWhere(d, sector_col, k), amount_col))
    IN  IF Truthy(sector_col) /\ IsNumeric(d, amount_col) /\ keys # {}
        THEN LET best == SetMax({total(k) : k \in keys})
                 tops == {k \in keys : total(k) = best}
                 top  == CHOOSE k \in tops :
                            \A o \in tops \ {k} : StrLess(AsStr(k), AsStr(o))
             IN  <<[kind |-> "top_sector", name |-> top, amount |-> best]>>
        ELSE <<>>

\* lines 82-89: value_counts(normalize=True, dropna=True); the order of rows
\* with equal counts is not fixed, so every most frequent city is a possible top
city_insights(d, city_col) ==
    LET keys == IF city_col \in d.cols THEN Uniques(d, city_col) ELSE {}
        n == Cardinality({i \in DOMAIN d.rows : ~IsNull(d.rows[i][city_col])})
    IN  IF keys # {}
        THEN LET best == SetMax({Count(d, city_col, k) : k \in keys})
             IN  {<<[kind |-> "top_city", name |-> k, count |-> best, of |-> n]>> :
                     k \in {k \in keys : Count(d, city_col, k) = best}}
        ELSE {<<>>}

growth_rows_dated(d, date_col, amount_col) ==
    SelectRows(d.rows, NonNull(d.rows, {date_col}))

\* line 91: df.dropna(subset=[date_col, amount_col])
growth_rows(d, date_col, amount_col) ==
    SelectRows(d.rows, NonNull(d.rows, {date_col, amount_col}))

\* lines 90-98: the .dt accessor needs the parsed date column and the
\* subtraction needs numbers
growth_insight(d, date_col, amount_col) ==
    IF Truthy(date_col) /\ date_col \in d.cols /\ IsNumeric(d, amount_col)
    THEN LET rows == growth_rows(d, date_col, amount_col)
             years == {rows[i][date_col].y : i \in DOMAIN rows}
             yearly(y) ==
                 SumCells(Amounts(
                     SelectRows(rows, {i \in DOMAIN rows : rows[i][date_col].y = y}),
                     amount_col))
         IN  IF Cardinality(years) >= 2 /\ yearly(SetMin(years)) # 0
             THEN <<[kind |-> "growth",
                     num  |-> (yearly(SetMax(years)) - yearly(SetMin(years))) * 100,
                     den  |-> yearly(SetMin(years)),
                     from |-> SetMin(years), to |-> SetMax(years)]>>
             ELSE <<>>
    ELSE <<>>

RECURSIVE StripAll(_)
StripAll(tokens) ==
    IF tokens = <<>> THEN <<>> ELSE <<Strip(Head(tokens))>> \o StripAll(Tail(tokens))
RECURSIVE Explode(_)
\* dropna().astype(str).str.split(',').explode().str.strip() over a column
Explode(cells) ==
    IF cells = <<>> THEN <<>>
    ELSE (IF IsNull(Head(cells)) THEN <<>> ELSE StripAll(Split(AsStr(Head(cells)), ",")))
         \o Explode(Tail(cells))
\* line 100
investor_tokens(d, investor_col) ==
    IF investor_col \in d.cols THEN Explode(Column(d, investor_col)) ELSE <<>>

Occurrences(tokens, k) == Cardinality({i \in DOMAIN tokens : tokens[i] = k})

\* lines 101-105: value_counts().head(1); ties as for the city
investor_insights(tokens) ==
    LET keys == {tokens[i] : i \in DOMAIN tokens}
    IN  IF keys # {}
        THEN LET best == SetMax({Occurrences(tokens, k) : k \in keys})
             IN  {<<[kind |-> "top_investor", name |-> k, deals |-> best]>> :
                     k \in {k \in keys : Occurrences(tokens, k) = best}}
        ELSE {<<>>}

Fallback == [kind |-> "fallback"]

with_fallback_always(found) == found \o <<Fallback>>

\* lines 108-110
with_fallback(found) == IF found = <<>> THEN <<Fallback>> ELSE found

\* every list generate_insights can return for the frame d
generate_insights(d, amount_col, city_col, sector_col, date_col, investor_col) ==
    {with_fallback(total_insight(d, amount_col)
                   \o sector_insight(d, sector_col, amount_col)
                   \o city
                   \o growth_insight(d, date_col, amount_col)
                   \o inv) :
        city \in city_insights(d, city_col),
        inv \in investor_insights(investor_tokens(d, investor_col))}

\* line 275
ShowInsights ==
    /\ pc = "metrics"
    /\ insights' \in generate_insights(filtered, fm.amount_col, fm.city_col,
                                       fm.sector_col, fm.date_col, fm.investor_col)
    /\ invs' = investor_tokens(filtered, fm.investor_col)
    /\ pc' = "insights"
    /\ UNCHANGED <<raw, df, fm, ctl, filtered, inv_rows>>

\* lines 285-288: zip(*...) of no rows yields nothing to unpack into lat, lon
MapPanel ==
    /\ pc = "insights"
    /\ IF Truthy(fm.city_col) /\ fm.amount_col \in filtered.cols
       THEN IF filtered.rows = <<>>
            THEN pc' = "crashed" /\ UNCHANGED filtered
            ELSE /\ pc' = "mapped"
                 /\ filtered' =
                      SetCol(SetCol(filtered, "lat",
                                    [i \in DOMAIN filtered.rows |->
                                        geocode_city(filtered.rows[i][fm.city_col])[1]]),
                             "lon",
                             [i \in DOMAIN filtered.rows |->
                                 geocode_city(filtered.rows[i][fm.city_col])[2]])
       ELSE pc' = "mapped" /\ UNCHANGED filtered
    /\ UNCHANGED <<raw, df, fm, ctl, insights, invs, inv_rows>>

RECURSIVE ExplodeRows(_, _, _)
\* lines 342-344: one row per token, carrying the parent row's amount
ExplodeRows(rows, investor_col, amount_col) ==
    IF rows = <<>> THEN <<>>
    ELSE LET row == Head(rows)
             tokens == IF IsNull(row[investor_col]) THEN <<>>
                       ELSE StripAll(Split(AsStr(row[investor_col]), ","))
         IN  [i \in DOMAIN tokens |->
                 [inv_split |-> tokens[i], amount |-> row[amount_col]]]
             \o ExplodeRows(Tail(rows), investor_col, amount_col)

\* lines 341-345
investor_rows(d, investor_col, amount_col) ==
    IF Truthy(investor_col) /\ investor_col \in d.cols /\ amount_col \in d.cols
    THEN LET exploded == ExplodeRows(d.rows, investor_col, amount_col)
         IN  SelectRows(exploded,
                        {i \in DOMAIN exploded :
                            exploded[i].inv_split \notin {"", "nan", "None"}})
    ELSE <<>>

InvestorsPanel ==
    /\ pc = "mapped"
    /\ inv_rows' = investor_rows(filtered, fm.investor_col, fm.amount_col)
    /\ pc' = "done"
    /\ UNCHANGED <<raw, df, fm, ctl, filtered, insights, invs>>

Next ==
    \/ DetectColumns
    \/ Normalize
    \/ ApplyFilters
    \/ KeyMetrics
    \/ ShowInsights
    \/ MapPanel
    \/ InvestorsPanel

---------------------------------------------------------------------------
(* Loaded tables                                                           *)

RowsOver(cs, cells) ==
    {r \in [cs -> UNION {cells[c] : c \in cs}] : \A c \in cs : r[c] \in cells[c]}
\* a column read_csv parsed as integers holds integers only
Homogeneous(rows) ==
    \A i, j \in DOMAIN rows : \A c \in DOMAIN rows[i] :
        rows[i][c].t = "num" => rows[j][c].t = "num"
Tables(colsets, cells, maxRows) ==
    UNION {{[cols |-> cs, rows |-> r] :
               r \in {q \in UNION {[1..n -> RowsOver(cs, cells)] : n \in 0..maxRows} :
                         Homogeneous(q)}} :
           cs \in colsets}

Loaded(tables) ==
    /\ pc = "loaded"
    /\ raw \in tables
    /\ df = raw
    /\ fm = NoColumns
    /\ ctl = NoControls
    /\ filtered = EmptyFrame
    /\ insights = <<>>
    /\ invs = <<>>
    /\ inv_rows = <<>>

Jan2015 == Str("2015-01-05")
Mar2016 == Str("2016-03-10")
Jul2017 == Str("2017-07-01")

\* the dashboard on tables with dates, categories, cities and MeitY flags
PipelineCells ==
    [c \in {" Date", "Amount in USD", "Sector", "City", "Is MeitY Recognized",
            "Investors", "Startup Name"} |->
        CASE c = " Date" -> {Jan2015, Mar2016, Str("unknown"), NaN}
          [] c = "Amount in USD" -> {Str("$1,000")}
          [] c = "Sector" -> {Str("Fintech"), NaN}
          [] c = "City" -> {Str("Pune"), NaN}
          [] c = "Is MeitY Recognized" -> {Str("Yes"), Str("bogus")}
          [] c = "Investors" -> {Str("A, B")}
          [] c = "Startup Name" -> {Str(" Acme ")}]
PipelineColumns ==
    {{" Date", "City", "Startup Name"},
     {" Date", "Is MeitY Recognized", "Startup Name"},
     {" Date", "Sector", "Amount in USD", "Investors", "Startup Name"},
     {"City", "Sector"}}

Init == Loaded(Tables(PipelineColumns, PipelineCells, MaxRows))
Spec == Init /\ [][Next]_vars

\* column detection over every subset of a header row
HeaderNames ==
    {" Date", "Funded Date", "Amount in USD", "Amount", "Investors", "Investor Name",
     "Startup", "Startup Name", "City ", "Location", "Remarks"}
InitColumns ==
    Loaded({[cols |-> cs, rows |-> <<>>] : cs \in SUBSET HeaderNames})
SpecColumns == InitColumns /\ [][Next]_vars

\* MeitY flag cells
FlagCells ==
    [c \in {" Date", "Is MeitY Recognized", "Startup Name"} |->
        CASE c = " Date" -> {Jan2015}
          [] c = "Is MeitY Recognized" ->
               {Str("Yes"), Str(" no "), Str("TRUE"), Str("bogus"), NaN, Str("y"),
                Str("N"), Str("False"), Str("1"), Str("0"), Str("1.0"), Str("Unknown"),
                Num(1), Num(0), Num(2)}
          [] c = "Startup Name" -> {Str("Acme")}]
InitFlag == Loaded(Tables({DOMAIN FlagCells}, FlagCells, MaxRows))
SpecFlag == InitFlag /\ [][Next]_vars

\* amount cells
AmountCells ==
    [c \in {" Date", "Amount", "Startup Name"} |->
        CASE c = " Date" -> {Jan2015}
          [] c = "Amount" ->
               {Str("$1,000"), Str("₹500"), Str("2000"), Str("0"), NaN, Str("undisclosed"),
                Str("Undisclosed"), Str("NONE"), Str("NaN"), Str("$"), Str("12abc"),
                Str("-500"), Str("$-1,000"), Num(750), Num(0), Num(-20)}
          [] c = "Startup Name" -> {Str("Acme")}]
InitAmount == Loaded(Tables({DOMAIN AmountCells}, AmountCells, MaxRows))
SpecAmount == InitAmount /\ [][Next]_vars

\* every combination of resolved and unresolved insight columns
InsightCells ==
    [c \in {" Date", "Amount", "Sector", "City", "Investors", "Startup Name"} |->
        CASE c = " Date" -> {Jan2015, Mar2016}
          [] c = "Amount" -> {Str("$100")}
          [] c = "Sector" -> {Str("Fintech"), NaN}
          [] c = "City" -> {Str("Pune"), NaN}
          [] c = "Investors" -> {Str("A, B")}
          [] c = "Startup Name" -> {Str("Acme")}]
InsightColumns ==
    {cs \cup {"Startup Name"} :
        cs \in SUBSET {" Date", "Amount", "Sector", "City", "Investors"}}
    \cup {{" Date", "Investors"}, {"City"}}
InitInsights == Loaded(Tables(InsightColumns, InsightCells, MaxRows))
SpecInsights == InitInsights /\ [][Next]_vars

\* yearly totals
GrowthCells ==
    [c \in {" Date", "Amount", "Startup Name"} |->
        CASE c = " Date" -> {Jan2015, Mar2016, Jul2017, NaN}
          [] c = "Amount" -> {NaN, Str("0"), Str("$100"), Str("300")}
          [] c = "Startup Name" -> {Str("Acme")}]
GrowthColumns ==
    {DOMAIN GrowthCells, {" Date", "Startup Name"}, {"Amount", "Startup Name"}, {" Date"}}
InitGrowth == Loaded(Tables(GrowthColumns, GrowthCells, MaxRows))
SpecGrowth == InitGrowth /\ [][Next]_vars

\* amounts by category
CategoryCells ==
    [c \in {" Date", "Amount", "Sector", "Industry Vertical", "Startup Name"} |->
        CASE c = " Date" -> {Jan2015}
          [] c = "Amount" -> {NaN, Str("$100"), Str("300")}
          [] c = "Sector" -> {Str("Fintech"), Str("Health"), NaN}
          [] c = "Industry Vertical" -> {Str("Fintech")}
          [] c = "Startup Name" -> {Str("Acme")}]
CategoryColumns ==
    {{" Date", "Amount", "Sector", "Startup Name"},
     {" Date", "Amount", "Industry Vertical", "Startup Name"}}
InitCategory == Loaded(Tables(CategoryColumns, CategoryCells, MaxRows))
SpecCategory == InitCategory /\ [][Next]_vars

\* collaborator fields
InvestorCells ==
    [c \in {" Date", "Amount", "Investors Name", "Startup Name"} |->
        CASE c = " Date" -> {Jan2015}
          [] c = "Amount" -> {Str("$100")}
          [] c = "Investors Name" ->
               {NaN, Str("A, B ,C"), Str("A,,B"), Str("A"), Str("A,,"), Str(" , "),
                Str("A,nan"), Str("A,B")}
          [] c = "Startup Name" -> {Str("Acme")}]
InitInvestors == Loaded(Tables({DOMAIN InvestorCells}, InvestorCells, MaxRows))
SpecInvestors == InitInvestors /\ [][Next]_vars

---------------------------------------------------------------------------
(* Properties                                                              *)

Normalized == pc \notin {"loaded", "detected"}
Filtered == pc \notin {"loaded", "detected", "normalized"}
Reported == pc \in {"insights", "mapped", "done"}
Kinds(list) == {list[i].kind : i \in DOMAIN list}
Entry(list, kind) == list[CHOOSE i \in DOMAIN list : list[i].kind = kind]

PositiveRaw == {Str("Yes"), Str("TRUE"), Str("y"), Str("1"), Num(1)}
NegativeRaw == {Str(" no "), Str("N"), Str("False"), Str("0"), Num(0)}

\* C1: once the MeitY column is normalized every cell is Recognized, Not
\* Recognized or Unknown: the affirmative raw cells give Recognized, the
\* negative ones Not Recognized, every other cell (a missing one included)
\* Unknown, and the three counts add up to the number of rows.
FlagThreeWay ==
    (Normalized /\ Truthy(fm.meity_col)) =>
        /\ \A i \in DOMAIN df.rows :
              LET r == raw.rows[i]["Is MeitY Recognized"]
              IN  df.rows[i][fm.meity_col] =
                     IF r \in PositiveRaw THEN Str("Recognized")
                     ELSE IF r \in NegativeRaw THEN Str("Not Recognized")
                     ELSE Str("Unknown")
        /\ Count(df, fm.meity_col, Str("Recognized"))
             + Count(df, fm.meity_col, Str("Not Recognized"))
             + Count(df, fm.meity_col, Str("Unknown")) = Len(raw.rows)

FlagThreeWayWitness ==
    /\ Normalized
    /\ \E i, j \in DOMAIN df.rows :
          /\ raw.rows[i]["Is MeitY Recognized"] = NaN
          /\ df.rows[i][fm.meity_col] = Str("Unknown")
          /\ raw.rows[j]["Is MeitY Recognized"] = Str(" no ")
          /\ df.rows[j][fm.meity_col] = Str("Not Recognized")

FieldAliases ==
    [date_col |-> DateAliases, startup_col |-> StartupAliases, city_col |-> CityAliases,
     industry_col |-> IndustryAliases, sector_col |-> SectorAliases,
     amount_col |-> AmountAliases, investor_col |-> InvestorAliases,
     meity_col |-> MeityAliases]

HeaderLabel ==
    [c \in HeaderNames |->
        CASE c = " Date" -> "date"
          [] c = "Funded Date" -> "funded_date"
          [] c = "Amount in USD" -> "amount_in_usd"
          [] c = "Amount" -> "amount"
          [] c = "Investors" -> "investors"
          [] c = "Investor Name" -> "investor_name"
          [] c = "Startup" -> "startup"
          [] c = "Startup Name" -> "startup_name"
          [] c = "City " -> "city"
          [] c = "Location" -> "location"
          [] c = "Remarks" -> "remarks"]

\* C2: each detected column is the earliest alias of its list that is a
\* column label, is None exactly when no alias is a label, is never a name
\* outside the labels, and detection leaves the labels as normalization made
\* them.
FirstMatchWins ==
    pc # "loaded" =>
        /\ \A f \in DOMAIN FieldAliases :
              LET L == FieldAliases[f]
                  present == {i \in DOMAIN L : L[i] \in df.cols}
              IN  /\ (fm[f] = None) <=> (present = {})
                  /\ present # {} => fm[f] = L[SetMin(present)]
                  /\ fm[f] # None => fm[f] \in df.cols
        /\ pc = "detected" => df.cols = {HeaderLabel[c] : c \in raw.cols}

FirstMatchWinsWitness ==
    /\ pc = "detected"
    /\ {"amount", "amount_in_usd", "location"} \subseteq df.cols
    /\ "city" \notin df.cols
    /\ fm.amount_col = "amount_in_usd"
    /\ fm.city_col = "location"
    /\ fm.date_col = None

\* C8: the normalized table always has as many rows as the loaded one, and
\* computing the insights, the map and the investors panel changes neither
\* the normalized table nor the number of rows of the filtered one.
PanelsKeepRows ==
    pc \in {"metrics", "insights", "mapped"} =>
        (df' = df /\ Len(filtered'.rows) = Len(filtered.rows))
RowCountPreserved ==
    [](Len(df.rows) = Len(raw.rows)) /\ [][PanelsKeepRows]_vars

RowCountPreservedWitness ==
    /\ pc = "done"
    /\ Len(df.rows) = Len(raw.rows)
    /\ \E i \in DOMAIN df.rows : IsNull(df.rows[i][fm.date_col])
    /\ Len(filtered.rows) = 1
    /\ Len(inv_rows) = 2

\* C10: every row of the filtered table has a year inside the selected range
\* and, when the date column is resolved, a date; without a date column the
\* filtered table has no row.
FilteredYearsInRange ==
    Filtered =>
        /\ \A i \in DOMAIN filtered.rows :
              /\ filtered.rows[i]["year"].t = "num"
              /\ ctl.year_range[1] <= filtered.rows[i]["year"].v
              /\ filtered.rows[i]["year"].v <= ctl.year_range[2]
              /\ fm.date_col # None => filtered.rows[i][fm.date_col].t = "date"
        /\ fm.date_col = None => filtered.rows = <<>>

FilteredYearsInRangeWitness ==
    /\ pc = "filtered"
    /\ Len(filtered.rows) = 1
    /\ \E i, j \in DOMAIN df.rows :
          /\ IsNull(df.rows[i]["year"])
          /\ df.rows[j]["year"] = Num(2016)
    /\ ctl.year_range = <<2016, 2016>>
    /\ ctl.city_sel # {}

InsightKinds == {"total", "top_sector", "top_city", "growth", "top_investor"}

\* C4: generate_insights always returns, its list is never empty, and the
\* fallback line is in it exactly when none of the five insights is, in which
\* case it is the only line.
InsightsNeverEmpty ==
    /\ pc = "metrics" =>
          generate_insights(filtered, fm.amount_col, fm.city_col, fm.sector_col,
                            fm.date_col, fm.investor_col) # {}
    /\ Reported =>
          /\ Len(insights) >= 1
          /\ ("fallback" \in Kinds(insights)) <=> (Kinds(insights) \cap InsightKinds = {})
          /\ "fallback" \in Kinds(insights) => insights = <<Fallback>>

InsightsNeverEmptyWitness ==
    /\ pc = "insights"
    /\ insights = <<Fallback>>
    /\ fm.city_col # None
    /\ fm.investor_col # None
    /\ Len(df.rows) = 2

AmountCol(d, i) == IF Truthy(fm.amount_col) THEN d.rows[i][fm.amount_col] ELSE NaN
DateCol(d, i) == IF Truthy(fm.date_col) THEN d.rows[i][fm.date_col] ELSE NaN

\* C5: the total-amount insight is in the list exactly when the filtered
\* table holds a non-null amount, and then it reports the sum of the non-null
\* amounts; an empty table yields the fallback line alone.
TotalOnlyWithAmounts ==
    Reported =>
        /\ ("total" \in Kinds(insights)) <=>
              (\E i \in DOMAIN filtered.rows : ~IsNull(AmountCol(filtered, i)))
        /\ "total" \in Kinds(insights) =>
              Entry(insights, "total").total =
                  SumCells([i \in DOMAIN filtered.rows |-> AmountCol(filtered, i)])
        /\ filtered.rows = <<>> => insights = <<Fallback>>

\* the growth statement over the filtered rows whose positions are in I
YearsOf(I) == {filtered.rows[i][fm.date_col].y : i \in I}
YearTotal(I, y) ==
    SumCells([i \in DOMAIN filtered.rows |->
                 IF i \in I /\ filtered.rows[i][fm.date_col].y = y
                 THEN AmountCol(filtered, i) ELSE NaN])
GrowthOver(I) ==
    /\ ("growth" \in Kinds(insights)) <=>
          /\ Cardinality(YearsOf(I)) >= 2
          /\ YearTotal(I, SetMin(YearsOf(I))) # 0
    /\ "growth" \in Kinds(insights) =>
          LET e == Entry(insights, "growth")
              first == SetMin(YearsOf(I))
              last == SetMax(YearsOf(I))
          IN  /\ e.from = first /\ e.to = last
              /\ e.den = YearTotal(I, first) /\ e.den # 0
              /\ e.num = (YearTotal(I, last) - YearTotal(I, first)) * 100
Dated == {i \in DOMAIN filtered.rows : DateCol(filtered, i).t = "date"}
DatedWithAmount == {i \in Dated : ~IsNull(AmountCol(filtered, i))}

\* C6 as stated: the growth insight is in the list exactly when the dated rows
\* span two or more years and the earliest of those years has a non-zero
\* total, a year whose rows all lack an amount counting as a total of 0; it
\* reports (latest - earliest) / earliest * 100 and never divides by zero.
GrowthOverDatedYears == Reported => GrowthOver(Dated)

\* C6 as amended: the same, with the years ranging over the rows that have
\* both a date and an amount.
GrowthOverAmountYears == Reported => GrowthOver(DatedWithAmount)

GrowthOverAmountYearsWitness ==
    /\ pc = "insights"
    /\ "growth" \in Kinds(insights)
    /\ Entry(insights, "growth") =
          [kind |-> "growth", num |-> 20000, den |-> 100, from |-> 2015, to |-> 2016]

CategoryTotal(k) ==
    SumCells([i \in DOMAIN filtered.rows |->
                 IF filtered.rows[i][fm.sector_col] = k
                 THEN AmountCol(filtered, i) ELSE NaN])

\* C7: the top-category insight is in the list only if the category column
\* is resolved and some row has both a category and an amount, and it names a
\* category whose amounts add up to the maximum over the categories.
CategoryNeedsAmounts ==
    (Reported /\ "top_sector" \in Kinds(insights)) =>
        /\ fm.sector_col # None
        /\ \E i \in DOMAIN filtered.rows :
              /\ ~IsNull(filtered.rows[i][fm.sector_col])
              /\ ~IsNull(AmountCol(filtered, i))
        /\ LET e == Entry(insights, "top_sector")
           IN  /\ e.amount = CategoryTotal(e.name)
               /\ \A k \in Uniques(filtered, fm.sector_col) : CategoryTotal(k) <= e.amount

RealTokens ==
    [c \in InvestorCells["Investors Name"] |->
        CASE c = NaN -> <<>>
          [] c = Str("A, B ,C") -> <<"A", "B", "C">>
          [] c = Str("A,,B") -> <<"A", "B">>
          [] c = Str("A") -> <<"A">>
          [] c = Str("A,,") -> <<"A">>
          [] c = Str(" , ") -> <<>>
          [] c = Str("A,nan") -> <<"A">>
          [] c = Str("A,B") -> <<"A", "B">>]
RECURSIVE ExpectedTokens(_)
ExpectedTokens(rows) ==
    IF rows = <<>> THEN <<>>
    ELSE RealTokens[Head(rows)[fm.investor_col]] \o ExpectedTokens(Tail(rows))

\* C3: both expansions of the collaborator field yield exactly the trimmed
\* tokens that are neither empty nor a sentinel, so the top-collaborator
\* insight names a real token and is left out when there is none.
CollaboratorTokensClean ==
    /\ Reported =>
          /\ invs = ExpectedTokens(filtered.rows)
          /\ ("top_investor" \in Kinds(insights)) <=> (ExpectedTokens(filtered.rows) # <<>>)
          /\ "top_investor" \in Kinds(insights) =>
                Entry(insights, "top_investor").name \notin {"", "nan", "none"}
    /\ pc = "done" =>
          [i \in DOMAIN inv_rows |-> inv_rows[i].inv_split] = ExpectedTokens(filtered.rows)

\* the investors panel alone yields the real tokens
PanelTokensClean ==
    pc = "done" =>
        [i \in DOMAIN inv_rows |-> inv_rows[i].inv_split] = ExpectedTokens(filtered.rows)

CleanAmount ==
    [c \in AmountCells["Amount"] |->
        CASE c = Str("$1,000") -> Num(1000)
          [] c = Str("₹500") -> Num(500)
          [] c = Str("2000") -> Num(2000)
          [] c = Str("0") -> Num(0)
          [] c = Num(750) -> Num(750)
          [] c = Num(0) -> Num(0)
          [] OTHER -> NaN]

\* C9: a cleaned amount is null or a non-negative number: the symbols are
\* stripped, the sentinel words in any letter case, the empty remainder, an
\* unparseable remainder and a negative number all become null.
AmountNeverNegative ==
    (Normalized /\ Truthy(fm.amount_col)) =>
        \A i \in DOMAIN df.rows :
            /\ df.rows[i][fm.amount_col] = CleanAmount[raw.rows[i]["Amount"]]
            /\ IsNull(df.rows[i][fm.amount_col]) \/ df.rows[i][fm.amount_col].v >= 0

\* the same without the negative cells
AmountCleanedUnlessNegative ==
    (Normalized /\ Truthy(fm.amount_col)) =>
        \A i \in DOMAIN df.rows :
            LET r == raw.rows[i]["Amount"]
            IN  r \notin {Str("-500"), Str("$-1,000"), Num(-20)} =>
                    df.rows[i][fm.amount_col] = CleanAmount[r]

=============================================================================
